---- MODULE Spec2Model ----
(***************************************************************************)
(* Model of the radish front end: the Scanner (src/src/scanner.rs), the    *)
(* recursive-descent Parser (src/src/parser.rs) and the runtime Value      *)
(* (src/src/common/value.rs).                                              *)
(*                                                                         *)
(* A source text is a sequence of characters.  A character is named by a   *)
(* string ("1", "+", "CAT" for U+732B, "ACUTE" for the combining mark      *)
(* U+0301, ...) and has a UTF-8 width in bytes.  Source.contents is the    *)
(* byte sequence of the text; byte <<c, i>> is the i-th byte of the        *)
(* encoding of character c.  Scanner.current / Scanner.previous and every  *)
(* Span index into that byte sequence, as the Rust string slices do.       *)
(***************************************************************************)
EXTENDS Integers, Sequences, FiniteSets, TLC

VARIABLES source, scanner, token, calls, parser, result, heap, values, panic, last, steps

vars == <<source, scanner, token, calls, parser, result, heap, values, panic, last, steps>>

\* Option<T>: None is the empty sequence, Some(x) is <<x>>; an absent &str is the
\* empty slice (advance and peek never return an empty Some)
None == <<>>

Some(x) == <<x>>

Unwrap(o) == o[1]

-----------------------------------------------------------------------------
(* Characters and their UTF-8 encoding                                     *)

Digits == {"0", "1", "2", "3", "4", "5", "6", "7", "8", "9"}

Letters == {"a", "e", "f", "l", "r", "s", "t", "u", "x", "T"}

\* The allow-list of is_whitespace
WhitespaceChars == {"TAB", "VT", "FF", "CR", " ", "NEL", "LRM", "RLM", "LS", "PS"}

\* Width in bytes of the UTF-8 encoding of a character.
\*   U+0085 (NEL), U+0301 (ACUTE)                      : 2 bytes
\*   U+200E, U+200F, U+2028, U+2029, U+732B (CAT)      : 3 bytes
\*   ASCII (digits, letters, operators, "NL" = \n ...) : 1 byte
Width(c) ==
    CASE c \in {"NEL", "ACUTE"} -> 2
      [] c \in {"LRM", "RLM", "LS", "PS", "CAT"} -> 3
      [] OTHER -> 1

\* The bytes of one character, as a string slice holding just that character
Str(c) == [i \in 1..Width(c) |-> <<c, i>>]

RECURSIVE Encode(_)
\* The bytes of a text (Source.contents for the text cs)
Encode(cs) == IF cs = <<>> THEN <<>> ELSE Str(Head(cs)) \o Encode(Tail(cs))

\* str::is_char_boundary: index 0, index len, or the first byte of a character
IsCharBoundary(s, index) ==
    \/ index = 0
    \/ index = Len(s)
    \/ index < Len(s) /\ s[index + 1][2] = 1

-----------------------------------------------------------------------------
(* Scanner: operators over <<contents, scanner state [current, previous]>> *)

SpanNew(start, end) == [start |-> start, end |-> end]

TokenNew(token_type, value, span) ==
    [token_type |-> token_type, value |-> value, span |-> span]

ScannerNew == [current |-> 0, previous |-> 0]

Remaining(contents, s) == SubSeq(contents, s.current + 1, Len(contents))

RECURSIVE CharEnd(_, _)
\* let mut end = 1; while !source.is_char_boundary(end) { end += 1 }
CharEnd(src, end) == IF IsCharBoundary(src, end) THEN end ELSE CharEnd(src, end + 1)

\* Scanner::peek: the next character, or None at the end of input
Peek(contents, s) ==
    IF Remaining(contents, s) = <<>>
    THEN None
    ELSE LET src == Remaining(contents, s)
         IN  SubSeq(src, 1, CharEnd(src, 1))

\* advance moving current by one byte, whatever the width of the character
Advance_OneByte(contents, s) ==
    IF Remaining(contents, s) = <<>>
    THEN [s |-> s, c |-> None]
    ELSE [s |-> [s EXCEPT !.current = @ + 1], c |-> SubSeq(Remaining(contents, s), 1, 1)]

\* Scanner::advance: the next character, with current moved past it
Advance(contents, s) ==
    IF Remaining(contents, s) = <<>>
    THEN [s |-> s, c |-> None]
    ELSE LET src == Remaining(contents, s)
             end == CharEnd(src, 1)
         IN  [s |-> [s EXCEPT !.current = @ + end], c |-> SubSeq(src, 1, end)]

is_whitespace(string) == string \in {Str(c) : c \in WhitespaceChars}

is_alpha(string) ==
    \A i \in 1..Len(string) : string[i][2] = 1 /\ Width(string[i][1]) = 1
                              /\ string[i][1] \in Letters \cup {"_"}

is_digit(string) ==
    string[1][2] = 1 /\ Width(string[1][1]) = 1 /\ string[1][1] \in Digits

\* Scanner::make_token: the text and span of previous..current; previous catches up
MakeToken(contents, s, token_type) ==
    [s   |-> [s EXCEPT !.previous = s.current],
     tok |-> TokenNew(token_type,
                      SubSeq(contents, s.previous + 1, s.current),
                      SpanNew(s.previous, s.current))]

\* Scanner::make_error_token: previous is left where it is
MakeErrorToken(contents, s, msg) ==
    [s   |-> s,
     tok |-> TokenNew("Error", msg, SpanNew(s.previous, s.current))]

RECURSIVE SkipLoop(_, _)
SkipLoop(contents, s) ==
    IF Peek(contents, s) # None /\ is_whitespace(Peek(contents, s))
    THEN SkipLoop(contents, Advance(contents, s).s)
    ELSE s

\* skip_whitespace without `self.previous = self.current`
SkipWhitespace_NoReset(contents, s) == SkipLoop(contents, s)

\* skip_whitespace with `self.previous = self.current` before the loop
SkipWhitespace_ResetFirst(contents, s) ==
    SkipLoop(contents, [s EXCEPT !.previous = s.current])

\* Scanner::skip_whitespace
SkipWhitespace(contents, s) ==
    LET t == SkipLoop(contents, s) IN [t EXCEPT !.previous = t.current]

RECURSIVE NumberLoop(_, _)
NumberLoop(contents, s) ==
    IF Peek(contents, s) # None /\ is_digit(Peek(contents, s))
    THEN NumberLoop(contents, Advance(contents, s).s)
    ELSE s

\* Scanner::number
Number(contents, s) == MakeToken(contents, NumberLoop(contents, s), "Number")

RECURSIVE IdentLoop(_, _)
IdentLoop(contents, s) ==
    IF Peek(contents, s) # None /\ is_alpha(Peek(contents, s))
    THEN IdentLoop(contents, Advance(contents, s).s)
    ELSE s

\* a keyword match on the start of the text only
IdentifierType_Prefix(contents, s) ==
    LET value == SubSeq(contents, s.previous + 1, s.current)
    IN  IF Len(value) >= 4 /\ SubSeq(value, 1, 4) = Encode(<<"t", "r", "u", "e">>)
          THEN "True"
        ELSE IF Len(value) >= 5 /\ SubSeq(value, 1, 5) = Encode(<<"f", "a", "l", "s", "e">>)
          THEN "False"
        ELSE "Ident"

\* Scanner::identifier_type
IdentifierType(contents, s) ==
    LET value == SubSeq(contents, s.previous + 1, s.current)
    IN  IF value = Encode(<<"t", "r", "u", "e">>) THEN "True"
        ELSE IF value = Encode(<<"f", "a", "l", "s", "e">>) THEN "False"
        ELSE "Ident"

\* Scanner::identifier
Identifier(contents, s) ==
    LET t == IdentLoop(contents, s)
    IN  MakeToken(contents, t, IdentifierType(contents, t))

\* format!("Unexpected character: '{}'", c)
UnexpectedCharacter(c) == <<<<"Unexpected character: '", 0>>>> \o c \o <<<<"'", 0>>>>

\* the match of Scanner::scan_token on a, what self.advance() gave
ScanMatch(contents, a) ==
    IF a.c = None THEN MakeToken(contents, a.s, "Eof")
    ELSE IF a.c = Str("+") THEN MakeToken(contents, a.s, "Plus")
    ELSE IF a.c = Str("-") THEN MakeToken(contents, a.s, "Minus")
    ELSE IF a.c = Str("/") THEN MakeToken(contents, a.s, "Slash")
    ELSE IF a.c = Str("*") THEN MakeToken(contents, a.s, "Star")
    ELSE IF a.c = Str("(") THEN MakeToken(contents, a.s, "LeftParen")
    ELSE IF a.c = Str(")") THEN MakeToken(contents, a.s, "RightParen")
    ELSE IF is_alpha(a.c) THEN Identifier(contents, a.s)
    ELSE IF is_digit(a.c) THEN Number(contents, a.s)
    ELSE MakeErrorToken(contents, a.s, UnexpectedCharacter(a.c))

\* Scanner::scan_token: the new scanner state and the token returned
ScanTokenOp(contents, s0) ==
    ScanMatch(contents, Advance(contents, SkipWhitespace(contents, s0)))

-----------------------------------------------------------------------------
(* Parser: operators over <<contents, parser state>>                       *)
(* A parser state is [scanner, previous, current, log]; log is what the    *)
(* parser has printed so far.  A parse function returns [p, ok, node] or   *)
(* [p, ok, err].                                                           *)

ParserNew == [scanner |-> ScannerNew, previous |-> None, current |-> None, log |-> <<>>]

RECURSIVE AdvanceLoop(_, _)

\* one turn of the loop of Parser::advance, r being what scan_token returned:
\* an Error token is printed and the loop goes on
AdvanceTurn(contents, p, r) ==
    IF r.tok.token_type # "Error"
    THEN [p EXCEPT !.scanner = r.s, !.current = Some(r.tok)]
    ELSE AdvanceLoop(contents,
                     [p EXCEPT !.scanner = r.s,
                               !.log = Append(@, <<"Error: ", r.tok.value>>)])

\* the loop of Parser::advance
AdvanceLoop(contents, p) == AdvanceTurn(contents, p, ScanTokenOp(contents, p.scanner))

\* Parser::advance
ParserAdvance(contents, p) ==
    AdvanceLoop(contents, [p EXCEPT !.previous = p.current])

CurrentType(p) == Unwrap(p.current).token_type

\* Parser::consume: a token of another type is only reported on the console
Consume(contents, p, token_type, err_msg) ==
    IF CurrentType(p) = token_type
    THEN ParserAdvance(contents, p)
    ELSE [p EXCEPT !.log = Append(@, <<err_msg, <<>>>>)]

Ok(p, node) == [p |-> p, ok |-> TRUE, node |-> node]

Err(p, msg) == [p |-> p, ok |-> FALSE, err |-> msg]

\* ASTNode::position
Position(node) == node.span

Literal(lit, span) == [kind |-> "Literal", lit |-> lit, span |-> span]

BinaryExpr(left, op, right, span) ==
    [kind |-> "BinaryExpr", left |-> left, op |-> op, right |-> right, span |-> span]

UnaryExpr(op, arg, span) == [kind |-> "UnaryExpr", op |-> op, arg |-> arg, span |-> span]

ParenExpr(expr, span) == [kind |-> "ParenExpr", expr |-> expr, span |-> span]

DigitValue(d) ==
    CASE d = "0" -> 0 [] d = "1" -> 1 [] d = "2" -> 2 [] d = "3" -> 3 [] d = "4" -> 4
      [] d = "5" -> 5 [] d = "6" -> 6 [] d = "7" -> 7 [] d = "8" -> 8 [] d = "9" -> 9

\* str::parse::<f64> succeeds on a token text: a non-empty run of ASCII digits (the
\* only number text the scanner makes; any text with another byte in it is refused)
IsF64(value) ==
    /\ value # <<>>
    /\ \A i \in 1..Len(value) : value[i][2] = 1 /\ value[i][1] \in Digits

\* impl From<ParseFloatError> for ParserError
CannotParseNumber == <<"Cannot parse number">>

RECURSIVE ParseF64(_)
\* str::parse::<f64> on a run of ASCII digits: its decimal value
ParseF64(value) ==
    IF value = <<>> THEN 0
    ELSE 10 * ParseF64(SubSeq(value, 1, Len(value) - 1)) + DigitValue(value[Len(value)][1])

\* the span of the left operand taken for the whole BinaryExpr
BinarySpan_LeftOnly(node, right) == SpanNew(Position(node).start, Position(node).end)

\* the span of a BinaryExpr built by parse_sum / parse_term
BinarySpan(node, right) == SpanNew(Position(node).start, Position(right).end)

\* the span of a ParenExpr built by parse_factor
ParenSpan(start, expr) == SpanNew(start, Position(expr).end + 1)

\* the span of a UnaryExpr built by parse_factor
UnarySpan(start, arg) == SpanNew(start, Position(arg).end)

\* format!("Error, unexpected token: '{}'.", token_type)
UnexpectedToken(token_type) == <<"Error, unexpected token: '", token_type, "'.">>

\* the console message of the consume call that follows a token of this type
ExpectMsg(token_type) ==
    CASE token_type = "Number" -> "Expect number literal"
      [] token_type = "True"   -> "Expect boolean literal 'true'."
      [] token_type = "False"  -> "Expect boolean literal 'false'."
      [] token_type = "Plus"   -> "Expect '+'"
      [] token_type = "Minus"  -> "Expect '-'"
      [] token_type = "Star"   -> "Expect '*'"
      [] token_type = "Slash"  -> "Expect '/'"

\* the Literal node parse_factor builds from a Number, True or False token
LiteralOf(current_token) ==
    LET span == SpanNew(current_token.span.start, current_token.span.end)
    IN  CASE current_token.token_type = "Number" ->
               Literal([kind |-> "Number", value |-> ParseF64(current_token.value)], span)
          [] current_token.token_type = "True" ->
               Literal([kind |-> "Bool", value |-> TRUE], span)
          [] current_token.token_type = "False" ->
               Literal([kind |-> "Bool", value |-> FALSE], span)

\* parse_factor, LeftParen arm, after `let expr = self.parse_sum()?`
ParenRest(contents, start, e) ==
    IF ~e.ok THEN e
    ELSE Ok(Consume(contents, e.p, "RightParen", "Expect ')' after grouping expression."),
            ParenExpr(e.node, ParenSpan(start, e.node)))

\* parse_factor, Minus arm, after `let arg = self.parse_factor()?`
UnaryRest(start, a) ==
    IF ~a.ok THEN a
    ELSE Ok(a.p, UnaryExpr("Subtract", a.node, UnarySpan(start, a.node)))

\* Op of the BinaryExpr built for an operator token
OpOf(token_type) ==
    CASE token_type = "Plus"  -> "Add"
      [] token_type = "Minus" -> "Subtract"
      [] token_type = "Star"  -> "Multiply"
      [] token_type = "Slash" -> "Divide"

RECURSIVE ParseSum(_, _), SumLoop(_, _, _), ParseTerm(_, _), TermLoop(_, _, _),
          ParseFactor(_, _)

\* parse_factor with the operand of unary minus parsed as a whole sum
ParseFactor_UnaryOverSum(contents, p) ==
    LET tt == CurrentType(p)
        current_token == Unwrap(p.current)
    IN  CASE tt \in {"Number", "True", "False"} ->
               IF tt = "Number" /\ ~IsF64(current_token.value)
               THEN Err(p, CannotParseNumber)
               ELSE Ok(Consume(contents, p, tt, ExpectMsg(tt)), LiteralOf(current_token))
          [] tt = "LeftParen" ->
               ParenRest(contents, current_token.span.start,
                         ParseSum(contents, Consume(contents, p, "LeftParen", "Expect '('.")))
          [] tt = "Minus" ->
               UnaryRest(current_token.span.start,
                         ParseSum(contents, Consume(contents, p, "Minus", "Expect '-'.")))
          [] OTHER -> Err(p, UnexpectedToken(tt))

\* Parser::parse_factor
ParseFactor(contents, p) ==
    LET tt == CurrentType(p)
        current_token == Unwrap(p.current)
    IN  CASE tt \in {"Number", "True", "False"} ->
               IF tt = "Number" /\ ~IsF64(current_token.value)
               THEN Err(p, CannotParseNumber)
               ELSE Ok(Consume(contents, p, tt, ExpectMsg(tt)), LiteralOf(current_token))
          [] tt = "LeftParen" ->
               ParenRest(contents, current_token.span.start,
                         ParseSum(contents, Consume(contents, p, "LeftParen", "Expect '('.")))
          [] tt = "Minus" ->
               UnaryRest(current_token.span.start,
                         ParseFactor(contents, Consume(contents, p, "Minus", "Expect '-'.")))
          [] OTHER -> Err(p, UnexpectedToken(tt))

\* parse_term without the `?` on its right operand: the error is dropped
TermRest_SwallowError(contents, node, tt, r) ==
    IF ~r.ok THEN Ok(r.p, node)
    ELSE TermLoop(contents, r.p, BinaryExpr(node, OpOf(tt), r.node, BinarySpan(node, r.node)))

\* parse_term, a Star or Slash arm, after `let right = self.parse_factor()?`
TermRest(contents, node, tt, r) ==
    IF ~r.ok THEN r
    ELSE TermLoop(contents, r.p, BinaryExpr(node, OpOf(tt), r.node, BinarySpan(node, r.node)))

\* the loop of Parser::parse_term, with the node built so far
TermLoop(contents, p, node) ==
    IF CurrentType(p) \in {"Star", "Slash"}
    THEN TermRest(contents, node, CurrentType(p),
                  ParseFactor(contents,
                              Consume(contents, p, CurrentType(p), ExpectMsg(CurrentType(p)))))
    ELSE Ok(p, node)

\* parse_term / parse_sum after the first operand: `let mut node = ...?` and the loop
TermFrom(contents, f) == IF ~f.ok THEN f ELSE TermLoop(contents, f.p, f.node)

\* Parser::parse_term
ParseTerm(contents, p) == TermFrom(contents, ParseFactor(contents, p))

\* parse_sum, a Plus or Minus arm, after `let right = self.parse_term()?`
SumRest(contents, node, tt, r) ==
    IF ~r.ok THEN r
    ELSE SumLoop(contents, r.p, BinaryExpr(node, OpOf(tt), r.node, BinarySpan(node, r.node)))

\* parse_sum with its right operand parsed by parse_sum: a right-recursive sum
SumLoop_RightRecursive(contents, p, node) ==
    IF CurrentType(p) \in {"Plus", "Minus"}
    THEN SumRest(contents, node, CurrentType(p),
                 ParseSum(contents,
                          Consume(contents, p, CurrentType(p), ExpectMsg(CurrentType(p)))))
    ELSE Ok(p, node)

\* the loop of Parser::parse_sum, with the node built so far
SumLoop(contents, p, node) ==
    IF CurrentType(p) \in {"Plus", "Minus"}
    THEN SumRest(contents, node, CurrentType(p),
                 ParseTerm(contents,
                           Consume(contents, p, CurrentType(p), ExpectMsg(CurrentType(p)))))
    ELSE Ok(p, node)

SumFrom(contents, t) == IF ~t.ok THEN t ELSE SumLoop(contents, t.p, t.node)

\* Parser::parse_sum
ParseSum(contents, p) == SumFrom(contents, ParseTerm(contents, p))

\* Parser::expression
Expression(contents, p) == ParseSum(contents, p)

\* what Parser::parse returns for the expression result r, and the parser afterwards
ParseReturn(r) ==
    IF r.ok THEN [p |-> r.p, ok |-> TRUE, items |-> <<r.node>>] ELSE r

\* Parser::parse: Ok(AST { items: [node] }) or Err(message)
ParseOp(contents, p) == ParseReturn(Expression(contents, ParserAdvance(contents, p)))

-----------------------------------------------------------------------------
(* Value (src/src/common/value.rs)                                          *)
(* A Value is [kind, val].  The val of a String is the address of its       *)
(* Rc<RefCell<String>> allocation: an index into the heap, the sequence of  *)
(* the texts of the allocated buffers.  A text is a sequence of characters. *)
(* An operator takes the heap and its operands and returns [panic, heap,    *)
(* out]: the message of the panic if it panicked, the heap it leaves and    *)
(* the Value it returned if it returned.                                    *)

\* f64, on the values that arithmetic reaches from small integers without rounding:
\* <<s, n, d>> is s * n / d with s in {1, -1}; <<s, 0, 1>> are the two zeros,
\* <<s, 1, 0>> the two infinities and <<1, 0, 0>> is NaN
NaN == <<1, 0, 0>>

RECURSIVE GCD(_, _)
GCD(n, d) == IF d = 0 THEN n ELSE GCD(d, n % d)

F64(s, n, d) == IF n = 0 /\ d = 0 THEN NaN ELSE <<s, n \div GCD(n, d), d \div GCD(n, d)>>

\* an integer constant as f64
F64Of(k) == IF k < 0 THEN <<-1, -k, 1>> ELSE <<1, k, 1>>

IsInfinite(x) == x[2] = 1 /\ x[3] = 0

\* -a
FNeg(a) == IF a = NaN THEN NaN ELSE <<-a[1], a[2], a[3]>>

\* a + b
FAdd(a, b) ==
    IF a = NaN \/ b = NaN THEN NaN
    ELSE IF IsInfinite(a) THEN (IF IsInfinite(b) /\ a[1] # b[1] THEN NaN ELSE a)
    ELSE IF IsInfinite(b) THEN b
    ELSE LET num == a[1] * a[2] * b[3] + b[1] * b[2] * a[3]
         IN  IF num = 0 THEN <<IF a[1] = -1 /\ b[1] = -1 THEN -1 ELSE 1, 0, 1>>
             ELSE IF num < 0 THEN F64(-1, -num, a[3] * b[3])
             ELSE F64(1, num, a[3] * b[3])

\* a - b
FSub(a, b) == FAdd(a, FNeg(b))

\* a * b
FMul(a, b) == IF a = NaN \/ b = NaN THEN NaN ELSE F64(a[1] * b[1], a[2] * b[2], a[3] * b[3])

\* a / b
FDiv(a, b) == IF a = NaN \/ b = NaN THEN NaN ELSE F64(a[1] * b[1], a[2] * b[3], a[3] * b[2])

\* The variants of Value
ValueNumber(num) == [kind |-> "Number", val |-> num]

ValueBoolean(b) == [kind |-> "Boolean", val |-> b]

ValueString(rc) == [kind |-> "String", val |-> rc]

ValueFunction(rc) == [kind |-> "Function", val |-> rc]

ValueNil == [kind |-> "Nil", val |-> <<>>]

\* what an operator call leaves: it returned out, or it panicked with msg
Returns(h, out) == [panic |-> None, heap |-> h, out |-> Some(out)]

Panics(h, msg) == [panic |-> Some(msg), heap |-> h, out |-> None]

OperandsMustBeNumbers == <<"Operands must be numbers">>

OperandMustBeBoolean == <<"Operand must be boolean">>

\* RefCell::borrow on a cell whose RefMut is alive
AlreadyMutablyBorrowed == <<"already mutably borrowed: BorrowError">>

\* impl From<f64> for Value
FromF64(num) == ValueNumber(num)

\* impl From<bool> for Value
FromBool(val) == ValueBoolean(val)

\* impl From<&str> for Value: a new buffer holding the text
FromStr(h, val) == [heap |-> Append(h, val), out |-> ValueString(Len(h) + 1)]

\* impl From<Function> for Value
FromFunction(val) == ValueFunction(val)

\* impl Clone for Value: a String or Function clone is an Rc clone, the same allocation
Clone(v) ==
    CASE v.kind = "Nil"      -> ValueNil
      [] v.kind = "Boolean"  -> ValueBoolean(v.val)
      [] v.kind = "Number"   -> ValueNumber(v.val)
      [] v.kind = "String"   -> ValueString(v.val)
      [] v.kind = "Function" -> ValueFunction(v.val)

\* a copying concatenation: the text goes to a new buffer
PushStr_Copy(h, a, b) == Returns(Append(h, h[a] \o h[b]), ValueString(Len(h) + 1))

\* a.borrow_mut().push_str(&b.borrow()): the RefMut of a is alive while b.borrow()
\* runs, and borrow() panics when a and b are the same RefCell
PushStr(h, a, b) ==
    IF a = b THEN Panics(h, AlreadyMutablyBorrowed)
    ELSE Returns([h EXCEPT ![a] = h[a] \o h[b]], ValueString(a))

\* an addition that reads a Boolean right operand as 0 or 1
Add_Coerce(h, self, other) ==
    IF self.kind = "Number" /\ other.kind = "Number"
      THEN Returns(h, ValueNumber(FAdd(self.val, other.val)))
    ELSE IF self.kind = "Number" /\ other.kind = "Boolean"
      THEN Returns(h, ValueNumber(FAdd(self.val, F64Of(IF other.val THEN 1 ELSE 0))))
    ELSE IF self.kind = "String" /\ other.kind = "String"
      THEN PushStr(h, self.val, other.val)
    ELSE Panics(h, OperandsMustBeNumbers)

\* impl Add for Value
Add(h, self, other) ==
    IF self.kind = "Number" /\ other.kind = "Number"
      THEN Returns(h, ValueNumber(FAdd(self.val, other.val)))
    ELSE IF self.kind = "String" /\ other.kind = "String"
      THEN PushStr(h, self.val, other.val)
    ELSE Panics(h, OperandsMustBeNumbers)

\* impl Sub for Value
Sub(h, self, other) ==
    IF self.kind = "Number" /\ other.kind = "Number"
      THEN Returns(h, ValueNumber(FSub(self.val, other.val)))
    ELSE Panics(h, OperandsMustBeNumbers)

\* impl Mul for Value
Mul(h, self, other) ==
    IF self.kind = "Number" /\ other.kind = "Number"
      THEN Returns(h, ValueNumber(FMul(self.val, other.val)))
    ELSE Panics(h, OperandsMustBeNumbers)

\* impl Div for Value
Div(h, self, other) ==
    IF self.kind = "Number" /\ other.kind = "Number"
      THEN Returns(h, ValueNumber(FDiv(self.val, other.val)))
    ELSE Panics(h, OperandsMustBeNumbers)

\* impl Neg for Value
Neg(h, self) ==
    IF self.kind = "Number" THEN Returns(h, ValueNumber(FNeg(self.val)))
    ELSE Panics(h, OperandsMustBeNumbers)

\* impl Not for Value
Not(h, self) ==
    IF self.kind = "Boolean" THEN Returns(h, ValueBoolean(~self.val))
    ELSE Panics(h, OperandMustBeBoolean)

-----------------------------------------------------------------------------
(* The state machine                                                       *)
(*   source  : the text handed to Source::source                           *)
(*   scanner : a Scanner over the source, driven by scan_token calls       *)
(*   token   : the token the last scan_token call on it returned           *)
(*   calls   : the scan_token calls made on it up to the first that        *)
(*             returned Eof                                                *)
(*   parser  : the Parser of Parser::new(source).parse(), after the call   *)
(*   result  : what that parse() call returned                             *)
(*   heap    : the texts of the String buffers allocated so far            *)
(*   values  : the Values the evaluator holds                              *)
(*   panic   : the message of the panic that aborted the evaluation        *)
(*   last    : the last call on Values: its name and the operands moved    *)
(*             into it                                                     *)
(*   steps   : the number of calls on Values made so far                   *)

\* Largest number of pieces of a source text given to the scanner
MaxScanPieces == 3

\* Largest number of pieces of a source text given to the parser
MaxParsePieces == 5

ScanPieces ==
    { <<"1">>, <<"+">>, <<" ">>, <<"CAT">>, <<"ACUTE">>, <<"NL">>,
      <<"e">>, <<"_">>, <<"T", "r", "u", "e">>, <<"t", "r", "u", "e">>, <<"f", "a", "l", "s", "e">> }

ParsePieces ==
    { <<"1">>, <<"+">>, <<"-">>, <<"*">>, <<"/">>, <<"(">>, <<")">>, <<" ">> }

\* Largest number of pieces of a source text of mixed pieces given to the parser
MaxMixedPieces == 3

MixedPieces ==
    ParsePieces \cup { <<"x">>, <<"CAT">>, <<"t", "r", "u", "e">>, <<"f", "a", "l", "s", "e">> }

RECURSIVE Flatten(_)
Flatten(ps) == IF ps = <<>> THEN <<>> ELSE Head(ps) \o Flatten(Tail(ps))

\* source is the concatenation of at most n of the pieces
IsText(pieces, n) == \E k \in 0..n : \E ps \in [1..k -> pieces] : source = Flatten(ps)

\* Source::source(text)
Contents == Encode(source)

InitObjects ==
    /\ scanner = ScannerNew
    /\ token = None
    /\ calls = 0
    /\ parser = ParserNew
    /\ result = None
    /\ heap = <<>>
    /\ values = <<>>
    /\ panic = None
    /\ last = None
    /\ steps = 0

Init == IsText(ScanPieces, MaxScanPieces) /\ InitObjects

InitParse ==
    /\ IsText(ParsePieces, MaxParsePieces) \/ IsText(MixedPieces, MaxMixedPieces)
    /\ InitObjects

\* scanner.scan_token()
ScanToken ==
    /\ \E r \in {ScanTokenOp(Contents, scanner)} :
          /\ scanner' = r.s
          /\ token' = Some(r.tok)
    /\ calls' = IF token # None /\ Unwrap(token).token_type = "Eof" THEN calls ELSE calls + 1
    /\ UNCHANGED <<source, parser, result, heap, values, panic, last, steps>>

\* Parser::new(source).parse()
Parse ==
    /\ result = None
    /\ \E r \in {ParseOp(Contents, ParserNew)} :
          /\ parser' = r.p
          /\ result' = Some(IF r.ok THEN [ok |-> TRUE, items |-> r.items]
                                    ELSE [ok |-> FALSE, err |-> r.err])
    /\ UNCHANGED <<source, scanner, token, calls, heap, values, panic, last, steps>>

Next == ScanToken \/ Parse

NextParse == Parse

\* Largest number of calls on Values in one evaluation
MaxCalls == 4

NumberInputs == {0, 1}

StrInputs == { <<"a">>, <<"b">> }

\* a Function: its chunk is not read by any operator
FunctionInputs == { [arity |-> 0, name |-> "f"] }

InitValue == source = <<>> /\ InitObjects

\* vs without the elements at the indices in moved
Without(vs, moved) ==
    LET keep == {i \in 1..Len(vs) : i \notin moved}
        RECURSIVE Pick(_)
        Pick(i) == IF i > Len(vs) THEN <<>>
                   ELSE IF i \in keep THEN <<vs[i]>> \o Pick(i + 1) ELSE Pick(i + 1)
    IN  Pick(1)

\* the evaluator makes a new Value v (and, for a String, its buffer)
Make(name, h, v) ==
    /\ panic = None
    /\ steps < MaxCalls
    /\ steps' = steps + 1
    /\ heap' = h
    /\ values' = Append(values, v)
    /\ last' = Some([op |-> name, args |-> <<>>])
    /\ UNCHANGED <<source, scanner, token, calls, parser, result, panic>>

\* the evaluator moves the Values at the indices args (in that order) into an
\* operator that leaves r: a returned Value is held, a panic aborts the evaluation
Apply(name, args, r) ==
    /\ panic = None
    /\ steps < MaxCalls
    /\ steps' = steps + 1
    /\ heap' = r.heap
    /\ values' = Without(values, {args[k] : k \in 1..Len(args)}) \o r.out
    /\ panic' = r.panic
    /\ last' = Some([op |-> name, args |-> [k \in 1..Len(args) |-> values[args[k]]]])
    /\ UNCHANGED <<source, scanner, token, calls, parser, result>>

\* Value::from(num)
ValueFromF64 == \E k \in NumberInputs : Make("from", heap, FromF64(F64Of(k)))

\* Value::from(val)
ValueFromBool == \E b \in BOOLEAN : Make("from", heap, FromBool(b))

\* Value::from(text)
ValueFromStr ==
    \E text \in StrInputs : \E r \in {FromStr(heap, text)} : Make("from", r.heap, r.out)

\* Value::from(function)
ValueFromFunction == \E f \in FunctionInputs : Make("from", heap, FromFunction(f))

\* Value::Nil
ValueFromNil == Make("Nil", heap, ValueNil)

\* values[i].clone()
ValueClone == \E i \in 1..Len(values) : Make("clone", heap, Clone(values[i]))

\* values[i] + values[j]
ValueAdd ==
    \E i, j \in 1..Len(values) :
        i # j /\ Apply("+", <<i, j>>, Add(heap, values[i], values[j]))

\* values[i] - values[j]
ValueSub ==
    \E i, j \in 1..Len(values) :
        i # j /\ Apply("-", <<i, j>>, Sub(heap, values[i], values[j]))

\* values[i] * values[j]
ValueMul ==
    \E i, j \in 1..Len(values) :
        i # j /\ Apply("*", <<i, j>>, Mul(heap, values[i], values[j]))

\* values[i] / values[j]
ValueDiv ==
    \E i, j \in 1..Len(values) :
        i # j /\ Apply("/", <<i, j>>, Div(heap, values[i], values[j]))

\* -values[i]
ValueNeg == \E i \in 1..Len(values) : Apply("neg", <<i>>, Neg(heap, values[i]))

\* !values[i]
ValueNot == \E i \in 1..Len(values) : Apply("!", <<i>>, Not(heap, values[i]))

NextValue ==
    \/ ValueFromF64 \/ ValueFromBool \/ ValueFromStr \/ ValueFromFunction \/ ValueFromNil
    \/ ValueClone
    \/ ValueAdd \/ ValueSub \/ ValueMul \/ ValueDiv \/ ValueNeg \/ ValueNot

Spec == Init /\ [][Next]_vars

SpecParse == InitParse /\ [][NextParse]_vars

SpecValue == InitValue /\ [][NextValue]_vars

-----------------------------------------------------------------------------
(* Vocabulary of the properties                                            *)

Returned == result # None

ReturnedOk == result # None /\ Unwrap(result).ok

\* the expression of the AST that parse() returned
Tree == Unwrap(result).items[1]

RECURSIVE Nodes(_)
\* every node of a tree
Nodes(n) ==
    {n} \cup (CASE n.kind = "BinaryExpr" -> Nodes(n.left) \cup Nodes(n.right)
                [] n.kind = "UnaryExpr"  -> Nodes(n.arg)
                [] n.kind = "ParenExpr"  -> Nodes(n.expr)
                [] OTHER                 -> {})

RECURSIVE TokensFrom(_, _)
\* the tokens a scanner at s yields up to Eof, Error tokens left out
TokensFrom(contents, s) ==
    LET r == ScanTokenOp(contents, s)
    IN  IF r.tok.token_type = "Eof" THEN <<>>
        ELSE IF r.tok.token_type = "Error" THEN TokensFrom(contents, r.s)
        ELSE <<r.tok>> \o TokensFrom(contents, r.s)

\* the tokens of the source
Tokens == TokensFrom(Contents, ScannerNew)

TypesOf(toks) == [i \in 1..Len(toks) |-> toks[i].token_type]

TokenTypes == TypesOf(Tokens)

SumOps == {"Add", "Subtract"}

TermOps == {"Multiply", "Divide"}

LiteralTypes == {"Number", "True", "False"}

RECURSIVE Shape(_)
\* a tree without its spans; a literal is named by the offset of its token
Shape(n) ==
    CASE n.kind = "BinaryExpr" -> <<Shape(n.left), n.op, Shape(n.right)>>
      [] n.kind = "UnaryExpr"  -> <<"Unary", n.op, Shape(n.arg)>>
      [] n.kind = "ParenExpr"  -> <<"Paren", Shape(n.expr)>>
      [] OTHER                 -> <<"Literal", n.span.start>>

RECURSIVE LeftFold(_, _)
\* (((t1 op1 t2) op2 t3) ... tn) for the tokens t1 op1 t2 ... tn, as a shape
LeftFold(toks, n) ==
    IF n = 1 THEN <<"Literal", toks[1].span.start>>
    ELSE <<LeftFold(toks, n - 2), OpOf(toks[n - 1].token_type),
           <<"Literal", toks[n].span.start>> >>

\* the source is a chain t1 op1 t2 ... tn of literals with every operator in ops
IsChain(toks, ops) ==
    /\ Len(toks) >= 3
    /\ Len(toks) % 2 = 1
    /\ \A i \in 1..Len(toks) :
          IF i % 2 = 1 THEN toks[i].token_type \in LiteralTypes
                       ELSE toks[i].token_type \in ops

\* C1: parse is left-associative. A chain t1 op1 t2 ... tn with every operator in
\* {+,-}, or every operator in {*,/}, parses to (((t1 op1 t2) op2 t3) ... tn); and in
\* every returned tree the right child of a + or - node is never itself a + or - node,
\* and the right child of a * or / node is never a BinaryExpr.
C1_LeftAssociative ==
    ReturnedOk =>
      /\ (IsChain(Tokens, {"Plus", "Minus"}) \/ IsChain(Tokens, {"Star", "Slash"}))
            => Shape(Tree) = LeftFold(Tokens, Len(Tokens))
      /\ \A n \in Nodes(Tree) :
            n.kind = "BinaryExpr" =>
              /\ n.op \in SumOps => ~(n.right.kind = "BinaryExpr" /\ n.right.op \in SumOps)
              /\ n.op \in TermOps => n.right.kind # "BinaryExpr"

\* "1 + 1 - 1" was parsed: a - node over a + node
C1_Witness ==
    /\ ReturnedOk
    /\ IsChain(Tokens, {"Plus", "Minus"})
    /\ Len(Tokens) = 5
    /\ Tree.kind = "BinaryExpr" /\ Tree.op = "Subtract"
    /\ Tree.left.kind = "BinaryExpr" /\ Tree.left.op = "Add"

Lit(tok) == <<"Literal", tok.span.start>>

\* C2: precedence sum < term < factor. Every input "-a + b" (a, b literals; also with
\* '-' for '+') parses to BinaryExpr(UnaryExpr(Subtract, a), Add, b); every input
\* "a + b * c" (also with '-' for '+' and '/' for '*') parses to
\* BinaryExpr(a, Add, BinaryExpr(b, Multiply, c)); and in every returned tree the
\* operand of a unary minus is never a BinaryExpr and no operand of a * or / node is a
\* + or - node.
C2_Precedence ==
    ReturnedOk =>
      /\ ( /\ Len(Tokens) = 4
           /\ TokenTypes[1] = "Minus" /\ TokenTypes[2] \in LiteralTypes
           /\ TokenTypes[3] \in {"Plus", "Minus"} /\ TokenTypes[4] \in LiteralTypes )
           => Shape(Tree) = << <<"Unary", "Subtract", Lit(Tokens[2])>>,
                               OpOf(TokenTypes[3]), Lit(Tokens[4]) >>
      /\ ( /\ Len(Tokens) = 5
           /\ TokenTypes[1] \in LiteralTypes /\ TokenTypes[2] \in {"Plus", "Minus"}
           /\ TokenTypes[3] \in LiteralTypes /\ TokenTypes[4] \in {"Star", "Slash"}
           /\ TokenTypes[5] \in LiteralTypes )
           => Shape(Tree) = << Lit(Tokens[1]), OpOf(TokenTypes[2]),
                               <<Lit(Tokens[3]), OpOf(TokenTypes[4]), Lit(Tokens[5])>> >>
      /\ \A n \in Nodes(Tree) :
            /\ n.kind = "UnaryExpr" => n.arg.kind # "BinaryExpr"
            /\ (n.kind = "BinaryExpr" /\ n.op \in TermOps) =>
                  /\ ~(n.left.kind = "BinaryExpr" /\ n.left.op \in SumOps)
                  /\ ~(n.right.kind = "BinaryExpr" /\ n.right.op \in SumOps)

\* "-1 + 1" was parsed: a + node whose left operand is the unary minus
C2_Witness ==
    /\ ReturnedOk
    /\ TokenTypes = <<"Minus", "Number", "Plus", "Number">>
    /\ Tree.kind = "BinaryExpr" /\ Tree.op = "Add"
    /\ Tree.left.kind = "UnaryExpr"

\* consume reported a missing ')' on the console
MissingRightParen ==
    \E i \in 1..Len(parser.log) : parser.log[i][1] = "Expect ')' after grouping expression."

\* C3: when the ')' that closes a grouping is absent where the grouping ends, parse
\* returns an error and no AST.
C3_MissingTokenFails ==
    (Returned /\ MissingRightParen) =>
        ~Unwrap(result).ok /\ "items" \notin DOMAIN Unwrap(result)

SpanInBounds(span) == 0 <= span.start /\ span.start <= span.end /\ span.end <= Len(Contents)

\* C4: every span satisfies 0 <= start <= end <= length(source): the span of every
\* token scan_token returned and of every node of a tree parse returned.
C4_SpansInBounds ==
    /\ token # None => SpanInBounds(Unwrap(token).span)
    /\ ReturnedOk => \A n \in Nodes(Tree) : SpanInBounds(n.span)

RECURSIVE MatchingClose(_, _, _)
\* the index of the ')' that closes the '(' before token j, depth groupings being open
\* at j; 0 when there is none
MatchingClose(toks, j, depth) ==
    IF j > Len(toks) THEN 0
    ELSE IF toks[j].token_type = "RightParen"
         THEN IF depth = 1 THEN j ELSE MatchingClose(toks, j + 1, depth - 1)
    ELSE IF toks[j].token_type = "LeftParen" THEN MatchingClose(toks, j + 1, depth + 1)
    ELSE MatchingClose(toks, j + 1, depth)

\* the ')' token that closes the '(' token at offset start
CloseOf(start) ==
    LET i == CHOOSE k \in 1..Len(Tokens) : Tokens[k].span.start = start
    IN  Tokens[MatchingClose(Tokens, i + 1, 1)]

\* C5: the span of every ParenExpr is [start of its '(', end of its matching ')'),
\* whatever whitespace stands between the delimiters and the inner expression.
C5_ParenSpan ==
    (ReturnedOk /\ ~MissingRightParen) =>
        \A n \in Nodes(Tree) :
            n.kind = "ParenExpr" => n.span.end = CloseOf(n.span.start).span.end

\* C6: the span of every BinaryExpr, at any depth and for every operator, is
\* [span(left).start, span(right).end); and a BinaryExpr of two literal tokens, as in
\* "1 + 23", spans from the start of the first token to the end of the last.
C6_BinarySpan ==
    ReturnedOk =>
      /\ \A n \in Nodes(Tree) :
            n.kind = "BinaryExpr" =>
                n.span = [start |-> n.left.span.start, end |-> n.right.span.end]
      /\ ( /\ Len(Tokens) = 3
           /\ TokenTypes[1] \in LiteralTypes /\ TokenTypes[3] \in LiteralTypes
           /\ TokenTypes[2] \in {"Plus", "Minus", "Star", "Slash"} )
           => /\ Tree.span = [start |-> Tokens[1].span.start, end |-> Tokens[3].span.end]
              /\ Tree.left.span = Tokens[1].span
              /\ Tree.right.span = Tokens[3].span

\* "1+1*1" was parsed: a BinaryExpr whose right operand is a BinaryExpr
C6_Witness ==
    /\ ReturnedOk
    /\ Tree.kind = "BinaryExpr"
    /\ Tree.right.kind = "BinaryExpr"
    /\ Tree.span = [start |-> 0, end |-> 5]
    /\ Tree.right.span = [start |-> 2, end |-> 5]

RECURSIVE ByteLen(_)
\* the length in bytes of the UTF-8 encoding of a text
ByteLen(cs) == IF cs = <<>> THEN 0 ELSE Width(Head(cs)) + ByteLen(Tail(cs))

\* the byte offset at which character k + 1 of the source starts
OffsetOf(k) == ByteLen(SubSeq(source, 1, k))

Marks == {"ACUTE"}

\* the number of grapheme clusters of the source that start before a byte offset: a
\* combining mark belongs to the cluster of the character before it
GraphemesBefore(offset) ==
    Cardinality({ k \in 1..Len(source) :
                    /\ OffsetOf(k - 1) < offset
                    /\ (source[k] \in Marks => k = 1) })

RECURSIVE FirstBad(_, _, _, _)
\* The type of the first token (Eof past the last one) that is none of Number, True,
\* False, LeftParen, Minus where the grammar wants a factor, or "" when there is none
\* before the parse stops. i is the token looked at, operand says a factor is wanted
\* there, depth counts the groupings open.
FirstBad(types, i, operand, depth) ==
    LET tt == IF i > Len(types) THEN "Eof" ELSE types[i]
    IN  IF operand
        THEN IF tt \in LiteralTypes THEN FirstBad(types, i + 1, FALSE, depth)
             ELSE IF tt = "LeftParen" THEN FirstBad(types, i + 1, TRUE, depth + 1)
             ELSE IF tt = "Minus" THEN FirstBad(types, i + 1, TRUE, depth)
             ELSE tt
        ELSE IF tt \in {"Plus", "Minus", "Star", "Slash"}
             THEN FirstBad(types, i + 1, TRUE, depth)
             ELSE IF tt = "RightParen" /\ depth > 0
             THEN FirstBad(types, i + 1, FALSE, depth - 1)
             ELSE ""

\* C8: when the parse reaches a factor position whose token is none of Number, True,
\* False, LeftParen, Minus, parse returns Err with the message naming that token type,
\* hands over no AST, and stops on that token.
C8_UnexpectedTokenFails ==
    Returned =>
        LET bad == FirstBad(TokenTypes, 1, TRUE, 0)
        IN  bad # "" =>
              /\ ~Unwrap(result).ok
              /\ "items" \notin DOMAIN Unwrap(result)
              /\ Unwrap(result).err = UnexpectedToken(bad)
              /\ CurrentType(parser) = bad

\* "1 +" was parsed (with any blanks): Err naming Eof
C8_Witness ==
    /\ Returned
    /\ TokenTypes = <<"Number", "Plus">>
    /\ ~Unwrap(result).ok
    /\ Unwrap(result).err = UnexpectedToken("Eof")

Unclassifiable(c) ==
    c \notin Digits \cup Letters \cup {"_", "+", "-", "/", "*", "(", ")"} \cup WhitespaceChars

\* the number of characters of the source before a byte offset
CharsBefore(offset) == Cardinality({ k \in 1..Len(source) : OffsetOf(k - 1) < offset })

\* the index of the first character after the first k that is no allow-listed
\* whitespace, or 0
NextNonBlank(k) ==
    IF \E j \in (k + 1)..Len(source) : source[j] \notin WhitespaceChars
    THEN CHOOSE j \in (k + 1)..Len(source) :
            /\ source[j] \notin WhitespaceChars
            /\ \A i \in (k + 1)..(j - 1) : source[i] \in WhitespaceChars
    ELSE 0

\* the character the next scan_token call meets, as an index into the source, or 0
Met == NextNonBlank(CharsBefore(scanner.current))

\* a token of the text after byte offset, with its span counted from the source start
Shifted(tok, offset) ==
    [tok EXCEPT !.span = [start |-> tok.span.start + offset, end |-> tok.span.end + offset]]

\* the first token of the text that follows byte offset, scanned on its own
FirstTokenAfter(offset) ==
    Shifted(ScanTokenOp(SubSeq(Contents, offset + 1, Len(Contents)), ScannerNew).tok, offset)

IsError == token # None /\ Unwrap(token).token_type = "Error"

\* C9: lexical errors never halt scanning. A scan_token call that meets a character
\* that is no operator, parenthesis, ASCII letter, underscore, ASCII digit or
\* allow-listed whitespace returns an Error token whose message holds that character
\* and whose span covers exactly it; and the call after one that returned an Error
\* token returns the token that the text right after the offending character yields.
C9_ErrorsDoNotHalt ==
    /\ [][(ScanToken /\ Met # 0 /\ Unclassifiable(source[Met])) =>
             token' = Some(TokenNew("Error", UnexpectedCharacter(Str(source[Met])),
                                    [start |-> OffsetOf(Met - 1), end |-> OffsetOf(Met)]))]_vars
    /\ [][(ScanToken /\ IsError) =>
             token' = Some(FirstTokenAfter(Unwrap(token).span.end))]_vars

\* a Number, identifier or operator token was returned right after an offending
\* character
C9_Witness ==
    /\ token # None
    /\ Unwrap(token).token_type \notin {"Error", "Eof"}
    /\ CharsBefore(Unwrap(token).span.start) > 0
    /\ Unclassifiable(source[CharsBefore(Unwrap(token).span.start)])

IsEof == token # None /\ Unwrap(token).token_type = "Eof"

\* the Eof token of the source: empty text, zero width, at the final offset
EofToken == TokenNew("Eof", <<>>, [start |-> ByteLen(source), end |-> ByteLen(source)])

\* C10: repeated scan_token calls return Eof after finitely many calls: the calls made
\* up to the first Eof are at most one more than the source has characters, each call
\* that does not return Eof moves the cursor forward, and a call that finds only
\* whitespace left returns Eof. That Eof token has empty text and a zero-width span at
\* the final offset of the source, and every later call returns the same Eof token.
C10_EofReached ==
    /\ [](calls <= Len(source) + 1)
    /\ [](IsEof => token = Some(EofToken))
    /\ [][(ScanToken /\ Met = 0) => token' = Some(EofToken)]_vars
    /\ [][(ScanToken /\ Unwrap(token').token_type # "Eof") =>
             scanner'.current > scanner.current]_vars
    /\ [][(ScanToken /\ IsEof) => token' = token]_vars

\* Eof was returned for a source that ends in whitespace
C10_Witness ==
    /\ IsEof
    /\ Len(source) > 1
    /\ source[Len(source)] \in WhitespaceChars
    /\ Unwrap(token).span.start = ByteLen(source)
    /\ calls > 1

-----------------------------------------------------------------------------
(* Vocabulary of the properties of Value                                   *)

\* this step is a call of the operator op
Called(op) == steps' = steps + 1 /\ Unwrap(last').op = op

\* the operands moved into the call of this step
Self == Unwrap(last').args[1]

Other == Unwrap(last').args[2]

\* the Value the call of this step returned
Out == values'[Len(values')]

\* the text of a String value in heap h
TextOf(h, v) == h[v.val]

BinaryOps == {"+", "-", "*", "/"}

\* C11: + is total over (String, String). Every call of + on two String values, the
\* two being clones of one another included, returns (no panic) a String value whose
\* text is the text of the left operand followed by the text of the right operand.
C11_StringAddTotal ==
    [][(Called("+") /\ Self.kind = "String" /\ Other.kind = "String") =>
          /\ panic' = None
          /\ Out.kind = "String"
          /\ TextOf(heap', Out) = TextOf(heap, Self) \o TextOf(heap, Other)]_vars

\* the Values held that share the buffer of v
ClonesOf(vs, v) == {k \in 1..Len(vs) : vs[k].kind = "String" /\ vs[k].val = v.val}

\* C12: string concatenation mutates and aliases. After a + b on String values with
\* distinct buffers the result refers to the buffer of a, that buffer holds the text
\* of a followed by the text of b, every clone of a still held reads the concatenated
\* text, and every other buffer, the one of b included, is unchanged.
C12_ConcatAliases ==
    [][(Called("+") /\ Self.kind = "String" /\ Other.kind = "String"
                    /\ Self.val # Other.val) =>
          /\ panic' = None
          /\ Out = ValueString(Self.val)
          /\ TextOf(heap', Out) = TextOf(heap, Self) \o TextOf(heap, Other)
          /\ Cardinality(ClonesOf(values', Self)) = Cardinality(ClonesOf(values, Self))
          /\ \A k \in ClonesOf(values', Self) :
                TextOf(heap', values'[k]) = TextOf(heap, Self) \o TextOf(heap, Other)
          /\ Len(heap') = Len(heap)
          /\ \A b \in 1..Len(heap) : b # Self.val => heap'[b] = heap[b]
          /\ \A k \in ClonesOf(values', Other) : TextOf(heap', values'[k]) = TextOf(heap, Other)]_vars

\* "a" + "b" returned "ab" while an earlier clone of the left operand is held, and
\* that clone reads "ab"
C12_Witness ==
    /\ last # None /\ Unwrap(last).op = "+" /\ panic = None
    /\ Len(Unwrap(last).args) = 2
    /\ Unwrap(last).args[1].kind = "String" /\ Unwrap(last).args[2].kind = "String"
    /\ Unwrap(last).args[1].val # Unwrap(last).args[2].val
    /\ \E k \in 1..(Len(values) - 1) :
          /\ values[k] = Unwrap(last).args[1]
          /\ TextOf(heap, values[k]) = <<"a", "b">>
    /\ TextOf(heap, values[Len(values)]) = <<"a", "b">>
    /\ TextOf(heap, Unwrap(last).args[2]) = <<"b">>

\* the panics that report an operand of the wrong variant
OperandTypeViolations == {Some(OperandsMustBeNumbers), Some(OperandMustBeBoolean)}

\* the call of this step is a binary operator on a pair of variants it is defined on
AllowedPair(op) ==
    \/ Self.kind = "Number" /\ Other.kind = "Number"
    \/ op = "+" /\ Self.kind = "String" /\ Other.kind = "String"

\* the call of this step aborted with an operand-type violation: no Value came back
\* and no buffer was written
Aborted(n) ==
    /\ panic' \in OperandTypeViolations
    /\ Len(values') = Len(values) - n
    /\ heap' = heap

\* the call of this step did not abort with an operand-type violation, and the Value
\* it returned has the variant kind
Kept(kind) ==
    /\ panic' \notin OperandTypeViolations
    /\ panic' = None => (Len(values') > 0 /\ Out.kind = kind)

\* C13: operators never coerce. A call of +, -, * or / on a pair of variants other
\* than (Number, Number) and, for +, (String, String) aborts with an operand-type
\* violation and returns no Value; unary - aborts so on every operand that is not a
\* Number and ! on every operand that is not a Boolean; on the allowed operands no call
\* ends in an operand-type violation and the Value returned has the operands' variant.
C13_NoCoercion ==
    /\ [][\A op \in BinaryOps :
            Called(op) => IF AllowedPair(op) THEN Kept(Self.kind) ELSE Aborted(2)]_vars
    /\ [][Called("neg") => IF Self.kind = "Number" THEN Kept("Number") ELSE Aborted(1)]_vars
    /\ [][Called("!") => IF Self.kind = "Boolean" THEN Kept("Boolean") ELSE Aborted(1)]_vars

\* Number + Boolean aborted the evaluation with the operand-type violation
C13_Witness ==
    /\ last # None /\ Unwrap(last).op = "+"
    /\ Len(Unwrap(last).args) = 2
    /\ Unwrap(last).args[1].kind = "Number" /\ Unwrap(last).args[2].kind = "Boolean"
    /\ panic = Some(OperandsMustBeNumbers)

\* the characters of an identifier: ASCII letters and the underscore
IdentChars == Letters \cup {"_"}

\* the index of the last character of the maximal identifier run that starts at k
RunEnd(k) ==
    CHOOSE j \in k..Len(source) :
        /\ \A i \in k..j : source[i] \in IdentChars
        /\ j = Len(source) \/ source[j + 1] \notin IdentChars

\* the kind of an identifier run, by verbatim match of its whole text
KindOf(text) ==
    IF text = <<"t", "r", "u", "e">> THEN "True"
    ELSE IF text = <<"f", "a", "l", "s", "e">> THEN "False"
    ELSE "Ident"

IdentKinds == {"Ident", "True", "False"}

\* C14: keywords are recognised by verbatim match on the whole maximal identifier
\* run. A scan_token call that meets a letter or underscore returns one token that
\* covers the maximal run of letters and underscores starting there, of kind True
\* iff the run is exactly "true", False iff exactly "false" and Ident otherwise; an
\* Ident, True or False token never starts inside a run; and no other token has
\* kind True or False.
C14_KeywordWholeRun ==
    /\ [][(ScanToken /\ Met # 0 /\ source[Met] \in IdentChars) =>
             token' = Some(TokenNew(KindOf(SubSeq(source, Met, RunEnd(Met))),
                                    Encode(SubSeq(source, Met, RunEnd(Met))),
                                    [start |-> OffsetOf(Met - 1),
                                     end |-> OffsetOf(RunEnd(Met))]))]_vars
    /\ [][(ScanToken /\ (Met = 0 \/ source[Met] \notin IdentChars)) =>
             Unwrap(token').token_type \notin IdentKinds]_vars
    /\ []((token # None /\ Unwrap(token).token_type \in IdentKinds) =>
             \/ CharsBefore(Unwrap(token).span.start) = 0
             \/ source[CharsBefore(Unwrap(token).span.start)] \notin IdentChars)

\* "truee" was returned as one Ident token covering the whole text
C14_Witness ==
    /\ source = <<"t", "r", "u", "e", "e">>
    /\ token = Some(TokenNew("Ident", Encode(source), [start |-> 0, end |-> 5]))

\* C15: when parse returns Ok the whole input has been consumed: the parser's current
\* token is Eof, and the returned expression holds every token of the source that is
\* not an Error token, so no trailing token is dropped.
C15_AllConsumed ==
    ReturnedOk =>
      /\ CurrentType(parser) = "Eof"
      /\ parser.scanner.current = ByteLen(source)

====
